---- MODULE Spec2Model ----
(***************************************************************************)
(* The MCPF example workflows: detectFraud (banking/fraud-detection),       *)
(* handleCustomerQuery (customer-service/escalation) and main               *)
(* (typescript/complete-workflow).  One run of one workflow per behaviour;  *)
(* the MCPF client library (ans.resolve, did.verifyAgent, registry.search,  *)
(* a2a.checkDelegation) is an external collaborator whose answers are       *)
(* chosen nondeterministically at each await.                               *)
(***************************************************************************)
EXTENDS Integers, Sequences, FiniteSets

(***************************************************************************)
(* Bounds of the model.                                                     *)
(***************************************************************************)
\* amounts are k * 10000 and k * 10000 + 1 for k in 0..MaxAmountK
MaxAmountK == 6
\* recent-transaction counts are 0..MaxRecentTx, or missing
MaxRecentTx == 6
\* denial reasons are the strings over ReasonChars of length 0..MaxReasonLen
MaxReasonLen == 2

(***************************************************************************)
(* Optional values: a missing property / undefined is <<>>, a present       *)
(* value v is <<v>>.                                                        *)
(***************************************************************************)
Undefined == <<>>
Some(v) == <<v>>
IsDefined(o) == o # <<>>
Val(o) == o[1]

(***************************************************************************)
(* JavaScript numbers that are fractions: IEEE-754 binary64 values in       *)
(* [0, 2), held exactly as a count of units of 2^-54 split in two limbs,    *)
(* <<hi, lo>> standing for hi * 2^27 + lo.  Every binary64 value in         *)
(* [2^-2, 2) is a whole number of such units: a multiple of 1 below 1/2,    *)
(* of 2 in [1/2, 1) and of 4 in [1, 2).                                     *)
(***************************************************************************)
Limb == 2 ^ 27

\* the binary64 values of the literals of the sources
F0_0 == <<0, 0>>
F0_2 == <<26843545, 80530637>>
F0_3 == <<40265318, 53687091>>
F0_5 == <<67108864, 0>>
F0_8 == <<107374182, 53687092>>
F0_9 == <<120795955, 26843546>>
F0_95 == <<127506841, 80530636>>
F1_0 == <<134217728, 0>>

FNorm(hi, lo) == <<hi + (lo \div Limb), lo % Limb>>

\* round-to-nearest, ties-to-even, of an exact sum of units
FRound(x) ==
  LET hi == x[1]
      lo == x[2]
  IN IF hi < Limb \div 2
       THEN x                                    \* below 1/2: exact
     ELSE IF hi < Limb
       THEN CASE lo % 2 = 0 -> x                 \* [1/2, 1): multiples of 2
              [] lo % 4 = 1 -> FNorm(hi, lo - 1)
              [] OTHER      -> FNorm(hi, lo + 1)
     ELSE CASE lo % 4 = 0 -> x                   \* [1, 2): multiples of 4
            [] lo % 4 = 1 -> FNorm(hi, lo - 1)
            [] lo % 4 = 3 -> FNorm(hi, lo + 1)
            [] lo % 8 = 2 -> FNorm(hi, lo - 2)
            [] OTHER      -> FNorm(hi, lo + 2)

\* a + b of two binary64 values
FAdd(a, b) == FRound(FNorm(a[1] + b[1], a[2] + b[2]))

\* a < b, a > b
FLess(a, b) == a[1] < b[1] \/ (a[1] = b[1] /\ a[2] < b[2])
FGreater(a, b) == FLess(b, a)

\* Math.min(a, b)
FMin(a, b) == IF FLess(b, a) THEN b ELSE a

(***************************************************************************)
(* Strings are sequences of characters.                                     *)
(***************************************************************************)
CredentialErrorMessage ==
  <<"A", "g", "e", "n", "t", " ", "c", "r", "e", "d", "e", "n", "t", "i", "a",
    "l", " ", "v", "e", "r", "i", "f", "i", "c", "a", "t", "i", "o", "n", " ",
    "f", "a", "i", "l", "e", "d">>

DelegationDeniedPrefix ==
  <<"D", "e", "l", "e", "g", "a", "t", "i", "o", "n", " ", "d", "e", "n", "i",
    "e", "d", ":", " ">>

UndefinedText == <<"u", "n", "d", "e", "f", "i", "n", "e", "d">>

\* String(v) as a template literal `${v}` applies it to an optional string
StringOf(o) == IF IsDefined(o) THEN Val(o) ELSE UndefinedText

\* `Delegation denied: ${delegation.reason}`
DelegationDeniedMessage_Generic(reason) == DelegationDeniedPrefix
DelegationDeniedMessage(reason) == DelegationDeniedPrefix \o StringOf(reason)

Contains(s, r) ==
  \E i \in 1..(Len(s) - Len(r) + 1) : SubSeq(s, i, i + Len(r) - 1) = r

(***************************************************************************)
(* Banking: the risk score, the reasoning list and the decision.            *)
(***************************************************************************)
HighAmount == 10000
VeryHighAmount == 50000
HighVelocity == 5
HighRiskCountry == "XX"

ReasonAmount == "High transaction amount"
ReasonVelocity == "High transaction velocity"
ReasonCountry == "High-risk destination country"
ReasonNormal == "Normal transaction pattern"

\* tx.metadata.recentTxCount || 0
RecentTxCountOrZero(tx) ==
  IF IsDefined(tx.recentTxCount) THEN Val(tx.recentTxCount) ELSE 0

\* tx.metadata.recentTxCount > 5 (undefined > 5 is false)
VelocityExceeded(tx) ==
  IsDefined(tx.recentTxCount) /\ Val(tx.recentTxCount) > HighVelocity

\* tx.metadata.toCountry === 'XX'
IsHighRiskCountry(tx) == tx.toCountry = Some(HighRiskCountry)

calculateRiskScore_Inclusive(tx) ==
  LET s1 == IF tx.amount >= HighAmount THEN FAdd(F0_0, F0_3) ELSE F0_0
      s2 == IF tx.amount >= VeryHighAmount THEN FAdd(s1, F0_2) ELSE s1
      s3 == IF RecentTxCountOrZero(tx) > HighVelocity THEN FAdd(s2, F0_2) ELSE s2
      s4 == IF IsHighRiskCountry(tx) THEN FAdd(s3, F0_3) ELSE s3
  IN FMin(s4, F1_0)

calculateRiskScore(tx) ==
  LET s1 == IF tx.amount > HighAmount THEN FAdd(F0_0, F0_3) ELSE F0_0
      s2 == IF tx.amount > VeryHighAmount THEN FAdd(s1, F0_2) ELSE s1
      s3 == IF RecentTxCountOrZero(tx) > HighVelocity THEN FAdd(s2, F0_2) ELSE s2
      s4 == IF IsHighRiskCountry(tx) THEN FAdd(s3, F0_3) ELSE s3
  IN FMin(s4, F1_0)

generateReasoning_NormalBelowHalf(tx, score) ==
  LET r1 == IF tx.amount > HighAmount THEN <<ReasonAmount>> ELSE <<>>
      r2 == IF VelocityExceeded(tx) THEN Append(r1, ReasonVelocity) ELSE r1
      r3 == IF IsHighRiskCountry(tx) THEN Append(r2, ReasonCountry) ELSE r2
  IN IF FLess(score, F0_5) THEN Append(r3, ReasonNormal) ELSE r3

generateReasoning_CountryFirst(tx, score) ==
  LET r1 == IF IsHighRiskCountry(tx) THEN <<ReasonCountry>> ELSE <<>>
      r2 == IF tx.amount > HighAmount THEN Append(r1, ReasonAmount) ELSE r1
      r3 == IF VelocityExceeded(tx) THEN Append(r2, ReasonVelocity) ELSE r2
  IN IF FLess(score, F0_3) THEN Append(r3, ReasonNormal) ELSE r3

generateReasoning(tx, score) ==
  LET r1 == IF tx.amount > HighAmount THEN <<ReasonAmount>> ELSE <<>>
      r2 == IF VelocityExceeded(tx) THEN Append(r1, ReasonVelocity) ELSE r1
      r3 == IF IsHighRiskCountry(tx) THEN Append(r2, ReasonCountry) ELSE r2
  IN IF FLess(score, F0_3) THEN Append(r3, ReasonNormal) ELSE r3

\* riskScore > 0.8 ? 'BLOCK' : riskScore > 0.5 ? 'REVIEW' : 'ALLOW'
Decision_Inclusive(riskScore) ==
  IF ~FLess(riskScore, F0_8) THEN "BLOCK"
  ELSE IF ~FLess(riskScore, F0_5) THEN "REVIEW"
  ELSE "ALLOW"

Decision(riskScore) ==
  IF FGreater(riskScore, F0_8) THEN "BLOCK"
  ELSE IF FGreater(riskScore, F0_5) THEN "REVIEW"
  ELSE "ALLOW"

(***************************************************************************)
(* Inputs and collaborator answers.                                         *)
(***************************************************************************)
Amounts == {k * HighAmount + o : k \in 0..MaxAmountK, o \in {0, 1}}
RecentTxCounts == {Undefined} \cup {Some(n) : n \in 0..MaxRecentTx}
Countries == {Undefined, Some("US"), Some(HighRiskCountry)}
Transactions ==
  [id : {"tx_1"}, amount : Amounts, recentTxCount : RecentTxCounts,
   toCountry : Countries]
NoTransaction ==
  [id |-> "", amount |-> 0, recentTxCount |-> Undefined, toCountry |-> Undefined]

Severities == {Undefined, Some("low"), Some("medium"), Some("high")}
Queries == [message : {"My account was charged twice"}, severity : Severities]
NoQuery == [message |-> "", severity |-> Undefined]

Dids == {"did:web:1", "did:web:2"}
PolicyIds == {"pol_1", "pol_2"}
Policies == [id : PolicyIds, requiresApproval : BOOLEAN]
ReasonChars == {"d", "!"}
Reasons == UNION {[1..k -> ReasonChars] : k \in 0..MaxReasonLen}

\* what a2a.checkDelegation may answer: { allowed, reason?, policy? }
Decisions ==
  [allowed : {TRUE}, reason : {Undefined},
   policy : {Undefined} \cup {Some(p) : p \in Policies}]
  \cup
  [allowed : {FALSE}, reason : {Undefined} \cup {Some(r) : r \in Reasons},
   policy : {Undefined}]
NoDecision == Undefined

FraudDetectorName == "fraud-detector.risk.bank.example.agent"
RiskAnalyzerName == "risk-analyzer.analytics.bank.example.agent"
ChatbotL1Name == "chatbot-l1.support.company.example.agent"
SupervisorAIName == "supervisor-ai.management.company.example.agent"
AnalyzerDid == "did:web:analyzer.example"

(***************************************************************************)
(* State.                                                                   *)
(***************************************************************************)
VARIABLES
  wf,           \* the workflow this run executes
  pc,           \* the await the run is suspended at, or "done"
  a2aPresent,   \* whether the MCPF client has its a2a component
  tx,           \* detectFraud's argument
  query,        \* handleCustomerQuery's argument
  source,       \* fraudDetector.did / chatbotL1.did / agent.did, once resolved
  target,       \* riskAnalyzer.did / supervisorAI.did, once resolved
  sourceValid,  \* detectorValid / valid, once verified
  targetValid,  \* analyzerValid, once verified
  l1Response,   \* l1Response.confidence, once produced
  delegation,   \* the DelegationDecision, once obtained
  trace,        \* the calls made so far, in order
  outcome,      \* how the run ended: a returned value or a thrown error
  stub,         \* two invocations: the answers the collaborators have given
  runs          \* two invocations: the locals of each invocation

vars ==
  <<wf, pc, a2aPresent, tx, query, source, target, sourceValid, targetValid,
    l1Response, delegation, trace, outcome, stub, runs>>

Call(op, args, ok) == [op |-> op, args |-> args, ok |-> ok]

Running == [kind |-> "running", error |-> "", message |-> <<>>, result |-> Undefined]
Returned(r) ==
  [kind |-> "returned", error |-> "", message |-> <<>>, result |-> Some(r)]
Threw(e, m) == [kind |-> "threw", error |-> e, message |-> m, result |-> Undefined]

\* collaborators that have not been asked anything yet
NoStub == [resolve |-> <<>>, verifyAgent |-> <<>>, checkDelegation |-> <<>>]

Init ==
  /\ wf \in {"detectFraud", "handleCustomerQuery", "main"}
  /\ pc = "resolveSource"
  /\ a2aPresent \in (IF wf = "main" THEN BOOLEAN ELSE {TRUE})
  /\ tx \in (IF wf = "detectFraud" THEN Transactions ELSE {NoTransaction})
  /\ query \in (IF wf = "handleCustomerQuery" THEN Queries ELSE {NoQuery})
  /\ source = Undefined
  /\ target = Undefined
  /\ sourceValid = Undefined
  /\ targetValid = Undefined
  /\ l1Response = Undefined
  /\ delegation = NoDecision
  /\ trace = <<>>
  /\ outcome = Running
  /\ stub = NoStub
  /\ runs = <<>>

(***************************************************************************)
(* mcpf.ans.resolve({ name }): an identity with a did, or NotFound.         *)
(***************************************************************************)
ResolveInto(name, next, srcNew, tgtNew) ==
  \/ /\ trace' = Append(trace, Call("resolve", <<name>>, FALSE))
     /\ outcome' = Threw("NotFound", <<>>)
     /\ pc' = "done"
     /\ UNCHANGED <<source, target>>
  \/ /\ trace' = Append(trace, Call("resolve", <<name>>, TRUE))
     /\ source' = srcNew
     /\ target' = tgtNew
     /\ pc' = next
     /\ UNCHANGED outcome

(***************************************************************************)
(* detectFraud                                                              *)
(***************************************************************************)
\* if (!detectorValid || !analyzerValid)
CredentialsFailed_Both(detectorValid, analyzerValid) ==
  ~detectorValid /\ ~analyzerValid
CredentialsFailed(detectorValid, analyzerValid) ==
  ~detectorValid \/ ~analyzerValid

\* the object literal detectFraud returns
FraudDetectionResult_SharedVelocity(t, fraudDetectorDid, riskAnalyzerDid, policy) ==
  LET seen == Cardinality({i \in DOMAIN runs : runs[i].pc = "done"})
      counted == [t EXCEPT !.recentTxCount = Some(RecentTxCountOrZero(t) + seen)]
      riskScore == calculateRiskScore(counted)
      reasoning == generateReasoning(counted, riskScore)
      decision == Decision(riskScore)
  IN [transactionId |-> t.id,
      fraudDetectorDid |-> fraudDetectorDid,
      riskAnalyzerDid |-> riskAnalyzerDid,
      policyId |-> policy.id,
      riskScore |-> riskScore,
      decision |-> decision,
      reasoning |-> reasoning]

FraudDetectionResult(t, fraudDetectorDid, riskAnalyzerDid, policy) ==
  LET riskScore == calculateRiskScore(t)
      reasoning == generateReasoning(t, riskScore)
      decision == Decision(riskScore)
  IN [transactionId |-> t.id,
      fraudDetectorDid |-> fraudDetectorDid,
      riskAnalyzerDid |-> riskAnalyzerDid,
      policyId |-> policy.id,
      riskScore |-> riskScore,
      decision |-> decision,
      reasoning |-> reasoning]

detectFraud_resolveFraudDetector ==
  /\ wf = "detectFraud" /\ pc = "resolveSource"
  /\ \E d \in Dids :
       ResolveInto(FraudDetectorName, "resolveTarget", Some(d), target)
  /\ UNCHANGED <<stub, runs, wf, a2aPresent, tx, query, sourceValid, targetValid,
                 l1Response, delegation>>

detectFraud_resolveRiskAnalyzer ==
  /\ wf = "detectFraud" /\ pc = "resolveTarget"
  /\ \E d \in Dids :
       ResolveInto(RiskAnalyzerName, "verifySource", source, Some(d))
  /\ UNCHANGED <<stub, runs, wf, a2aPresent, tx, query, sourceValid, targetValid,
                 l1Response, delegation>>

detectFraud_verifyFraudDetector ==
  /\ wf = "detectFraud" /\ pc = "verifySource"
  /\ \E v \in BOOLEAN :
       /\ sourceValid' = Some(v)
       /\ trace' = Append(trace, Call("verifyAgent", <<Val(source)>>, v))
  /\ pc' = "verifyTarget"
  /\ UNCHANGED <<stub, runs, wf, a2aPresent, tx, query, source, target, targetValid,
                 l1Response, delegation, outcome>>

detectFraud_verifyRiskAnalyzer ==
  /\ wf = "detectFraud" /\ pc = "verifyTarget"
  /\ \E v \in BOOLEAN :
       /\ targetValid' = Some(v)
       /\ trace' = Append(trace, Call("verifyAgent", <<Val(target)>>, v))
       /\ IF CredentialsFailed(Val(sourceValid), v)
            THEN /\ outcome' = Threw("Error", CredentialErrorMessage)
                 /\ pc' = "done"
            ELSE /\ pc' = "checkDelegation"
                 /\ UNCHANGED outcome
  /\ UNCHANGED <<stub, runs, wf, a2aPresent, tx, query, source, target, sourceValid,
                 l1Response, delegation>>

detectFraud_checkDelegation ==
  /\ wf = "detectFraud" /\ pc = "checkDelegation"
  /\ \E d \in Decisions :
       LET asked == Append(trace,
                      Call("checkDelegation",
                           <<Val(source), Val(target), "analyze-transaction">>,
                           d.allowed))
           computed == asked \o <<Call("calculateRiskScore", <<tx.id>>, TRUE),
                                  Call("generateReasoning", <<tx.id>>, TRUE)>>
       IN /\ delegation' = Some(d)
          /\ IF ~d.allowed
               THEN /\ trace' = asked
                    /\ outcome' = Threw("Error", DelegationDeniedMessage(d.reason))
             ELSE IF ~IsDefined(d.policy)
               \* delegation.policy!.id of an undefined policy
               THEN /\ trace' = computed
                    /\ outcome' = Threw("TypeError", <<>>)
             ELSE /\ trace' = computed
                  /\ outcome' = Returned(FraudDetectionResult(
                                   tx, Val(source), Val(target), Val(d.policy)))
  /\ pc' = "done"
  /\ UNCHANGED <<stub, runs, wf, a2aPresent, tx, query, source, target, sourceValid,
                 targetValid, l1Response>>

detectFraud ==
  \/ detectFraud_resolveFraudDetector
  \/ detectFraud_resolveRiskAnalyzer
  \/ detectFraud_verifyFraudDetector
  \/ detectFraud_verifyRiskAnalyzer
  \/ detectFraud_checkDelegation

(***************************************************************************)
(* handleCustomerQuery                                                      *)
(***************************************************************************)
\* confidence: query.severity === 'high' ? 0.5 : 0.9
simulateL1Response(q) == IF q.severity = Some("high") THEN F0_5 ELSE F0_9

\* confidence: 0.95
simulateSupervisorResponse(q) == F0_95

\* l1Response.confidence < 0.8 || query.severity === 'high'
NeedsEscalation_Flipped(confidence, severity) ==
  FGreater(confidence, F0_8) \/ severity = Some("high")
NeedsEscalation(confidence, severity) ==
  FLess(confidence, F0_8) \/ severity = Some("high")

\* { status: 'resolved_l1', response: l1Response }
ResolvedL1(confidence) ==
  [status |-> "resolved_l1", confidence |-> confidence, policyId |-> Undefined]

\* { status: 'escalated', response: supervisorResponse, policyId }
Escalated(confidence, policy) ==
  [status |-> "escalated", confidence |-> confidence, policyId |-> Some(policy.id)]

handleCustomerQuery_resolveChatbotL1 ==
  /\ wf = "handleCustomerQuery" /\ pc = "resolveSource"
  /\ \E d \in Dids :
       ResolveInto(ChatbotL1Name, "resolveTarget", Some(d), target)
  /\ UNCHANGED <<stub, runs, wf, a2aPresent, tx, query, sourceValid, targetValid,
                 l1Response, delegation>>

handleCustomerQuery_resolveSupervisorAI ==
  /\ wf = "handleCustomerQuery" /\ pc = "resolveTarget"
  /\ \E d \in Dids :
       ResolveInto(SupervisorAIName, "l1Response", source, Some(d))
  /\ UNCHANGED <<stub, runs, wf, a2aPresent, tx, query, sourceValid, targetValid,
                 l1Response, delegation>>

handleCustomerQuery_l1Response ==
  /\ wf = "handleCustomerQuery" /\ pc = "l1Response"
  /\ LET confidence == simulateL1Response(query)
     IN /\ l1Response' = Some(confidence)
        /\ trace' = Append(trace, Call("simulateL1Response", <<query.message>>, TRUE))
        /\ IF NeedsEscalation(confidence, query.severity)
             THEN /\ pc' = "checkDelegation"
                  /\ UNCHANGED outcome
             ELSE /\ pc' = "done"
                  /\ outcome' = Returned(ResolvedL1(confidence))
  /\ UNCHANGED <<stub, runs, wf, a2aPresent, tx, query, source, target, sourceValid,
                 targetValid, delegation>>

handleCustomerQuery_checkDelegation ==
  /\ wf = "handleCustomerQuery" /\ pc = "checkDelegation"
  /\ \E d \in Decisions :
       /\ delegation' = Some(d)
       /\ trace' = Append(trace,
                     Call("checkDelegation",
                          <<Val(source), Val(target), "escalate">>, d.allowed))
       /\ IF d.allowed
            THEN /\ pc' = "supervisorResponse"
                 /\ UNCHANGED outcome
            ELSE /\ pc' = "done"
                 /\ outcome' = Returned(ResolvedL1(Val(l1Response)))
  /\ UNCHANGED <<stub, runs, wf, a2aPresent, tx, query, source, target, sourceValid,
                 targetValid, l1Response>>

handleCustomerQuery_supervisorResponse ==
  /\ wf = "handleCustomerQuery" /\ pc = "supervisorResponse"
  /\ trace' = Append(trace,
                Call("simulateSupervisorResponse", <<query.message>>, TRUE))
  /\ IF IsDefined(Val(delegation).policy)
       THEN outcome' = Returned(Escalated(simulateSupervisorResponse(query),
                                          Val(Val(delegation).policy)))
       \* delegation.policy.id of an undefined policy
       ELSE outcome' = Threw("TypeError", <<>>)
  /\ pc' = "done"
  /\ UNCHANGED <<stub, runs, wf, a2aPresent, tx, query, source, target, sourceValid,
                 targetValid, l1Response, delegation>>

handleCustomerQuery ==
  \/ handleCustomerQuery_resolveChatbotL1
  \/ handleCustomerQuery_resolveSupervisorAI
  \/ handleCustomerQuery_l1Response
  \/ handleCustomerQuery_checkDelegation
  \/ handleCustomerQuery_supervisorResponse

(***************************************************************************)
(* main (complete-workflow)                                                 *)
(***************************************************************************)
main_resolve ==
  /\ wf = "main" /\ pc = "resolveSource"
  /\ \E d \in Dids :
       ResolveInto(FraudDetectorName, "verifySource", Some(d), target)
  /\ UNCHANGED <<stub, runs, wf, a2aPresent, tx, query, sourceValid, targetValid,
                 l1Response, delegation>>

\* the result is logged, never tested
main_verifyAgent ==
  /\ wf = "main" /\ pc = "verifySource"
  /\ \E v \in BOOLEAN :
       /\ sourceValid' = Some(v)
       /\ trace' = Append(trace, Call("verifyAgent", <<Val(source)>>, v))
  /\ pc' = "search"
  /\ UNCHANGED <<stub, runs, wf, a2aPresent, tx, query, source, target, targetValid,
                 l1Response, delegation, outcome>>

main_search ==
  /\ wf = "main" /\ pc = "search"
  /\ trace' = Append(trace, Call("search", <<"getCurrentWeather">>, TRUE))
  /\ IF a2aPresent
       THEN /\ pc' = "checkDelegation"
            /\ UNCHANGED outcome
       ELSE /\ pc' = "done"
            /\ outcome' = Returned([status |-> "void"])
  /\ UNCHANGED <<stub, runs, wf, a2aPresent, tx, query, source, target, sourceValid,
                 targetValid, l1Response, delegation>>

main_checkDelegation ==
  /\ wf = "main" /\ pc = "checkDelegation"
  /\ \E d \in Decisions :
       /\ delegation' = Some(d)
       /\ trace' = Append(trace,
                     Call("checkDelegation",
                          <<Val(source), AnalyzerDid, "analyze">>, d.allowed))
  /\ pc' = "done"
  /\ outcome' = Returned([status |-> "void"])
  /\ UNCHANGED <<stub, runs, wf, a2aPresent, tx, query, source, target, sourceValid,
                 targetValid, l1Response>>

main ==
  \/ main_resolve
  \/ main_verifyAgent
  \/ main_search
  \/ main_checkDelegation

Next == detectFraud \/ handleCustomerQuery \/ main

Spec == Init /\ [][Next]_vars

(***************************************************************************)
(* Two invocations of detectFraud with the same transaction, interleaved    *)
(* at their awaits, against collaborators that answer deterministically:    *)
(* the first answer given to a call is the answer to every later call with  *)
(* the same arguments.  Each invocation has its own MCPF client and its own *)
(* locals (index.ts:38-42); the module holds no other state.                *)
(***************************************************************************)
Invocations == {1, 2}

\* the transactions of the two-invocation runs: the amounts just above a
\* multiple of 10000, the counts around the velocity threshold
PairTransactions ==
  {t \in Transactions :
     /\ t.amount % HighAmount = 1
     /\ t.recentTxCount \in
          {Undefined, Some(HighVelocity), Some(MaxRecentTx)}}

FreshRun ==
  [pc |-> "resolveSource", fraudDetector |-> Undefined,
   riskAnalyzer |-> Undefined, detectorValid |-> Undefined,
   analyzerValid |-> Undefined, delegation |-> NoDecision, trace |-> <<>>,
   outcome |-> Running]

PairInit ==
  /\ wf = "detectFraud"
  /\ pc = "resolveSource"
  /\ a2aPresent = TRUE
  /\ tx \in PairTransactions
  /\ query = NoQuery
  /\ source = Undefined
  /\ target = Undefined
  /\ sourceValid = Undefined
  /\ targetValid = Undefined
  /\ l1Response = Undefined
  /\ delegation = NoDecision
  /\ trace = <<>>
  /\ outcome = Running
  /\ stub = NoStub
  /\ runs = [i \in Invocations |-> FreshRun]

\* the answers a collaborator may give to a call: the one it gave before
Answers(given, key, any) == IF key \in DOMAIN given THEN {given[key]} ELSE any
Remember(given, key, answer) ==
  [k \in DOMAIN given \cup {key} |-> IF k = key THEN answer ELSE given[k]]

\* new Date() at completion: a logical clock, the number of calls made so far
RECURSIVE CallsMade(_)
CallsMade(is) ==
  IF is = {} THEN 0
  ELSE LET i == CHOOSE x \in is : TRUE
       IN Len(runs[i].trace) + CallsMade(is \ {i})
Now == CallsMade(Invocations)

\* the returned object with its timestamp
Stamped(fields, timestamp) == [fields |-> fields, timestamp |-> timestamp]

PairUnchanged ==
  UNCHANGED <<wf, pc, a2aPresent, tx, query, source, target, sourceValid,
              targetValid, l1Response, delegation, trace, outcome>>

PairResolve(i, name, at, next, field) ==
  /\ runs[i].pc = at
  /\ \E a \in Answers(stub.resolve, name, {Undefined} \cup {Some(d) : d \in Dids}) :
       /\ stub' = [stub EXCEPT !.resolve = Remember(@, name, a)]
       /\ runs' = [runs EXCEPT ![i] =
            IF IsDefined(a)
              THEN [[@ EXCEPT !.pc = next,
                             !.trace = Append(@, Call("resolve", <<name>>, TRUE))]
                    EXCEPT ![field] = a]
              ELSE [@ EXCEPT !.pc = "done",
                            !.outcome = Threw("NotFound", <<>>),
                            !.trace = Append(@, Call("resolve", <<name>>, FALSE))]]
  /\ PairUnchanged

pair_resolveFraudDetector(i) ==
  PairResolve(i, FraudDetectorName, "resolveSource", "resolveTarget", "fraudDetector")

pair_resolveRiskAnalyzer(i) ==
  PairResolve(i, RiskAnalyzerName, "resolveTarget", "verifySource", "riskAnalyzer")

pair_verifyFraudDetector(i) ==
  /\ runs[i].pc = "verifySource"
  /\ LET did == Val(runs[i].fraudDetector)
     IN \E v \in Answers(stub.verifyAgent, did, BOOLEAN) :
          /\ stub' = [stub EXCEPT !.verifyAgent = Remember(@, did, v)]
          /\ runs' = [runs EXCEPT ![i] =
               [@ EXCEPT !.pc = "verifyTarget",
                         !.detectorValid = Some(v),
                         !.trace = Append(@, Call("verifyAgent", <<did>>, v))]]
  /\ PairUnchanged

pair_verifyRiskAnalyzer(i) ==
  /\ runs[i].pc = "verifyTarget"
  /\ LET did == Val(runs[i].riskAnalyzer)
     IN \E v \in Answers(stub.verifyAgent, did, BOOLEAN) :
          /\ stub' = [stub EXCEPT !.verifyAgent = Remember(@, did, v)]
          /\ runs' = [runs EXCEPT ![i] =
               LET verified ==
                     [@ EXCEPT !.analyzerValid = Some(v),
                               !.trace = Append(@, Call("verifyAgent", <<did>>, v))]
               IN IF CredentialsFailed(Val(@.detectorValid), v)
                    THEN [verified EXCEPT
                            !.pc = "done",
                            !.outcome = Threw("Error", CredentialErrorMessage)]
                    ELSE [verified EXCEPT !.pc = "checkDelegation"]]
  /\ PairUnchanged

pair_checkDelegation(i) ==
  /\ runs[i].pc = "checkDelegation"
  /\ LET from == Val(runs[i].fraudDetector)
         to == Val(runs[i].riskAnalyzer)
         key == <<from, to, "analyze-transaction">>
     IN \E d \in Answers(stub.checkDelegation, key, Decisions) :
          LET asked == Append(runs[i].trace, Call("checkDelegation", key, d.allowed))
              computed == asked \o <<Call("calculateRiskScore", <<tx.id>>, TRUE),
                                     Call("generateReasoning", <<tx.id>>, TRUE)>>
              ended ==
                IF ~d.allowed
                  THEN [trace |-> asked,
                        outcome |-> Threw("Error", DelegationDeniedMessage(d.reason))]
                ELSE IF ~IsDefined(d.policy)
                  THEN [trace |-> computed, outcome |-> Threw("TypeError", <<>>)]
                ELSE [trace |-> computed,
                      outcome |-> Returned(Stamped(
                        FraudDetectionResult(tx, from, to, Val(d.policy)),
                        Now + Len(computed) - Len(runs[i].trace)))]
          IN /\ stub' = [stub EXCEPT !.checkDelegation = Remember(@, key, d)]
             /\ runs' = [runs EXCEPT ![i] =
                  [@ EXCEPT !.pc = "done",
                            !.delegation = Some(d),
                            !.trace = ended.trace,
                            !.outcome = ended.outcome]]
  /\ PairUnchanged

PairNext ==
  \E i \in Invocations :
    \/ pair_resolveFraudDetector(i)
    \/ pair_resolveRiskAnalyzer(i)
    \/ pair_verifyFraudDetector(i)
    \/ pair_verifyRiskAnalyzer(i)
    \/ pair_checkDelegation(i)

PairSpec == PairInit /\ [][PairNext]_vars

(***************************************************************************)
(* Properties.                                                              *)
(***************************************************************************)
Called(op) == \E i \in DOMAIN trace : trace[i].op = op
CalledWith(op, ok) == \E i \in DOMAIN trace : trace[i].op = op /\ trace[i].ok = ok
Calls(op) == {i \in DOMAIN trace : trace[i].op = op}
Elems(seq) == {seq[i] : i \in DOMAIN seq}
HasResult == outcome.kind = "returned"
Result == Val(outcome.result)

\* C1: in detectFraud, once a credential verification has returned false the
\* Delegation Checker is never invoked, the risk computation is not run and
\* no result is returned; and once both verifications are in with either of
\* them false, the run has failed with 'Agent credential verification failed'.
C1_CredentialGate ==
  (wf = "detectFraud" /\ CalledWith("verifyAgent", FALSE)) =>
    /\ ~Called("checkDelegation")
    /\ ~Called("calculateRiskScore")
    /\ ~HasResult
    /\ pc \in {"verifyTarget", "done"}
    /\ Cardinality(Calls("verifyAgent")) = 2 =>
         /\ pc = "done"
         /\ outcome.kind = "threw"
         /\ outcome.error = "Error"
         /\ outcome.message = CredentialErrorMessage

C1_Witness ==
  /\ wf = "detectFraud"
  /\ sourceValid = Some(TRUE)
  /\ targetValid = Some(FALSE)
  /\ outcome.kind = "threw"
  /\ outcome.message = CredentialErrorMessage

\* C2: in detectFraud, when both credentials verified and the Delegation
\* Checker answered allowed = false with reason r, the run has failed with an
\* error whose message contains r as supplied, the risk score was not
\* computed and no result is returned.
C2_DenialCarriesReason ==
  (/\ wf = "detectFraud"
   /\ IsDefined(delegation)
   /\ ~Val(delegation).allowed
   /\ IsDefined(Val(delegation).reason)) =>
    /\ sourceValid = Some(TRUE) /\ targetValid = Some(TRUE)
    /\ pc = "done"
    /\ outcome.kind = "threw"
    /\ Contains(outcome.message, Val(Val(delegation).reason))
    /\ outcome.message = DelegationDeniedPrefix \o Val(Val(delegation).reason)
    /\ ~Called("calculateRiskScore")
    /\ ~HasResult

C2_Witness ==
  /\ wf = "detectFraud"
  /\ IsDefined(delegation)
  /\ ~Val(delegation).allowed
  /\ IsDefined(Val(delegation).reason)
  /\ Len(Val(Val(delegation).reason)) = MaxReasonLen
  /\ outcome.kind = "threw"

\* C3: in detectFraud and handleCustomerQuery, after the Delegation Checker
\* answered allowed = false no result is returned unless its status encodes
\* the denial: never a result of detectFraud, never status 'resolved_l1' or
\* 'escalated' of handleCustomerQuery.
C3_NoSuccessAfterDenial ==
  (CalledWith("checkDelegation", FALSE) /\ HasResult) =>
    /\ wf # "detectFraud"
    /\ wf = "handleCustomerQuery" =>
         Result.status \notin {"resolved_l1", "escalated"}

\* C4: in detectFraud, when the allowed decision's policy has the
\* approval-required flag set, the risk computation runs and a result is
\* returned only after the human approval collaborator was asked and approved.
C4_ApprovalBeforeComputation ==
  (/\ wf = "detectFraud"
   /\ IsDefined(delegation)
   /\ Val(delegation).allowed
   /\ IsDefined(Val(delegation).policy)
   /\ Val(Val(delegation).policy).requiresApproval
   /\ (Called("calculateRiskScore") \/ HasResult)) =>
    CalledWith("requestApproval", TRUE)

\* C5: in every workflow, the Delegation Checker is invoked only after the
\* credentials of every agent the workflow resolved were verified and found
\* valid, and never after a verification that returned false.
VerifiedBefore(did, i) ==
  \E j \in 1..(i - 1) :
    trace[j].op = "verifyAgent" /\ trace[j].args = <<did>> /\ trace[j].ok

C5_VerifyBeforeDelegate ==
  \A i \in Calls("checkDelegation") :
    /\ IsDefined(source) => VerifiedBefore(Val(source), i)
    /\ IsDefined(target) => VerifiedBefore(Val(target), i)
    /\ \A j \in 1..(i - 1) : trace[j].op = "verifyAgent" => trace[j].ok

\* C6: the risk score of a result is the sum, clamped to [0.0, 1.0], of 0.3
\* for amount > 10,000, 0.2 more for amount > 50,000, 0.2 for a recent
\* count > 5 (missing counts as 0) and 0.3 for country 'XX'; it lies in
\* [0.0, 1.0]; and with none of the conditions it is 0.0 and the decision ALLOW.
Tenths(t) ==
  LET sum == (IF t.amount > 10000 THEN 3 ELSE 0)
           + (IF t.amount > 50000 THEN 2 ELSE 0)
           + (IF t.recentTxCount # Undefined /\ t.recentTxCount[1] > 5 THEN 2 ELSE 0)
           + (IF t.toCountry = <<"XX">> THEN 3 ELSE 0)
  IN IF sum > 10 THEN 10 ELSE sum

\* the binary64 value nearest to n / 10
NearestTenth(n) ==
  CASE n = 0 -> <<0, 0>>
    [] n = 2 -> <<26843545, 80530637>>
    [] n = 3 -> <<40265318, 53687091>>
    [] n = 5 -> <<67108864, 0>>
    [] n = 6 -> <<80530636, 107374182>>
    [] n = 7 -> <<93952409, 80530636>>
    [] n = 8 -> <<107374182, 53687092>>
    [] n = 10 -> <<134217728, 0>>

C6_ScoreIsClampedSum ==
  (wf = "detectFraud" /\ HasResult) =>
    /\ Result.riskScore = NearestTenth(Tenths(tx))
    /\ ~FLess(Result.riskScore, F0_0)
    /\ ~FGreater(Result.riskScore, F1_0)
    /\ Tenths(tx) = 0 => (Result.riskScore = F0_0 /\ Result.decision = "ALLOW")

C6_Witness ==
  /\ wf = "detectFraud" /\ HasResult
  /\ tx.amount = 10000
  /\ tx.recentTxCount = Some(5)
  /\ tx.toCountry = Some("US")
  /\ Result.riskScore = F0_0
  /\ Result.decision = "ALLOW"

C8_NormalExcludesTriggered ==
  (wf = "detectFraud" /\ HasResult /\ ReasonNormal \in Elems(Result.reasoning)) =>
    Elems(Result.reasoning) \cap {ReasonAmount, ReasonVelocity, ReasonCountry} = {}

\* C8 amended: the reasoning list contains the normal-pattern note exactly
\* when the score is below 0.3, that is when neither the amount nor the
\* country condition fired; then it contains neither 'High transaction
\* amount' nor 'High-risk destination country', but it does follow 'High
\* transaction velocity' when velocity is the only condition that fired.
C8_NormalExcludesAmountAndCountry ==
  (wf = "detectFraud" /\ HasResult) =>
    LET reasons == Elems(Result.reasoning)
    IN /\ ReasonNormal \in reasons <=> Tenths(tx) < 3
       /\ ReasonNormal \in reasons =>
            reasons \cap {ReasonAmount, ReasonCountry} = {}
       /\ (ReasonNormal \in reasons /\ ReasonVelocity \in reasons) <=>
            Tenths(tx) = 2

C8_Witness ==
  /\ wf = "detectFraud" /\ HasResult
  /\ Result.reasoning = <<ReasonVelocity, ReasonNormal>>

\* C9: in handleCustomerQuery, once the L1 response is in: with severity
\* 'high' or confidence < 0.8 the Delegation Checker is invoked for action
\* 'escalate', and severity 'high' satisfies the escalation test also with
\* confidence 0.9; with confidence >= 0.8 and severity not 'high' the checker
\* is never invoked and the result has status 'resolved_l1'.
C9_EscalationIsOr ==
  (wf = "handleCustomerQuery" /\ IsDefined(l1Response)) =>
    LET high == query.severity = <<"high">>
        unsure == FLess(Val(l1Response), F0_8)
        asked == \E i \in Calls("checkDelegation") : trace[i].args[3] = "escalate"
    IN /\ (high \/ unsure) => (pc = "checkDelegation" \/ asked)
       /\ high => NeedsEscalation(F0_9, query.severity)
       /\ ~(high \/ unsure) =>
            /\ ~Called("checkDelegation")
            /\ pc = "done"
            /\ HasResult
            /\ Result.status = "resolved_l1"

C9_Witness ==
  /\ wf = "handleCustomerQuery"
  /\ query.severity = Some("high")
  /\ IsDefined(l1Response)
  /\ Called("checkDelegation")

StepOrder ==
  <<"resolve", "resolve", "verifyAgent", "verifyAgent", "checkDelegation",
    "calculateRiskScore", "generateReasoning">>

C12_StrictOrder ==
  /\ Len(trace) <= Len(StepOrder)
  /\ \A i \in DOMAIN trace : trace[i].op = StepOrder[i]
  /\ Len(trace) >= 1 => trace[1].args = <<FraudDetectorName>>
  /\ Len(trace) >= 2 => trace[2].args = <<RiskAnalyzerName>>
  /\ Len(trace) >= 3 => trace[3].args = source
  /\ Len(trace) >= 4 => trace[4].args = target

C12_NoPartialSuccess ==
  wf = "detectFraud" =>
    /\ C12_StrictOrder
    /\ pc = "done" <=> outcome.kind \in {"returned", "threw"}
    /\ HasResult => Len(trace) = Len(StepOrder)
    /\ outcome.kind = "threw" =>
         /\ ~Called("calculateRiskScore")
         /\ \/ ~trace[Len(trace)].ok
            \/ trace[Len(trace)].op = "verifyAgent"

\* C11: two invocations of detectFraud with the same transaction, against
\* collaborators that answer deterministically, make the same calls with the
\* same answers however they are interleaved, and end in the same outcome:
\* the same error, or results equal in every field but the timestamp.
IsPrefix(a, b) == Len(a) <= Len(b) /\ SubSeq(b, 1, Len(a)) = a

C11_Deterministic ==
  \A i, j \in DOMAIN runs :
    /\ IsPrefix(runs[i].trace, runs[j].trace) \/ IsPrefix(runs[j].trace, runs[i].trace)
    /\ (runs[i].pc = "done" /\ runs[j].pc = "done") =>
         /\ runs[i].trace = runs[j].trace
         /\ runs[i].outcome.kind = runs[j].outcome.kind
         /\ runs[i].outcome.error = runs[j].outcome.error
         /\ runs[i].outcome.message = runs[j].outcome.message
         /\ runs[i].outcome.kind = "returned" =>
              Val(runs[i].outcome.result).fields = Val(runs[j].outcome.result).fields

\* both returned, the first while the second was suspended at checkDelegation
C11_Witness ==
  /\ DOMAIN runs = Invocations
  /\ \A i \in Invocations : runs[i].outcome.kind = "returned"
  /\ {Val(runs[i].outcome.result).timestamp : i \in Invocations} = {11, 14}
  /\ Val(runs[1].outcome.result).fields = Val(runs[2].outcome.result).fields

====
